---- MODULE Spec2Model ----
(***************************************************************************)
(* symspellrs: the SymSpell engine (src/src/symspell.rs) and the           *)
(* compile-time dictionary builder include_dictionary!                     *)
(* (src/macros/src/lib.rs).                                                *)
(*                                                                         *)
(* A Rust String is modelled as the sequence of its chars; a char is a     *)
(* TLA+ string naming it ("eacute" is U+00E9).  String::len and            *)
(* String::remove work on UTF-8 bytes, so a char carries its width.        *)
(***************************************************************************)
EXTENDS Integers, Sequences, FiniteSets, TLC

VARIABLES sym, emb, out, supplied, file, panicked

vars == <<sym, emb, out, supplied, file, panicked>>

(***************************************************************************)
(* Bounds of the model                                                     *)
(***************************************************************************)
MaxN == 2       \* configured max_distance of an engine ranges over 0..MaxN
MaxD == 2       \* requested max_distance of a lookup ranges over 0..MaxD
MaxFreq == 1    \* frequencies of entries range over 0..MaxFreq
MaxBatch == 2   \* entries of one load_iter iterator
MaxFile == 2    \* entries (lines) of one dictionary file
MaxWords == 2   \* words held by the mutable dictionary
MaxLen == 3     \* chars of a string given to a free function

(***************************************************************************)
(* Program constants                                                       *)
(***************************************************************************)
queue_limit == 10000
u8_MAX == 255
max_deletes_default == 100000

(***************************************************************************)
(* Strings                                                                 *)
(***************************************************************************)
Alphabet == {"a", "b", "c", "A", "eacute"}

\* char::len_utf8: U+00E9 takes two bytes, the ASCII letters one.
len_utf8(c) == IF c = "eacute" THEN 2 ELSE 1

\* Unicode scalar value of a char; String's Ord compares UTF-8 bytes, which
\* orders strings as their scalar values do.
scalar(c) == CASE c = "A" -> 65 [] c = "a" -> 97 [] c = "b" -> 98
               [] c = "c" -> 99 [] c = "eacute" -> 233

\* char::to_lowercase on the alphabet.
char_to_lowercase(c) == IF c = "A" THEN "a" ELSE c

RECURSIVE to_lowercase(_)
to_lowercase(s) ==
  IF s = <<>> THEN <<>> ELSE <<char_to_lowercase(Head(s))>> \o to_lowercase(Tail(s))

\* String::len: the length in bytes.
RECURSIVE len(_)
len(s) == IF s = <<>> THEN 0 ELSE len_utf8(Head(s)) + len(Tail(s))

\* A test of emptiness that no string passes.
never_empty(s) == FALSE

is_empty(s) == len(s) = 0

\* A failed operation (a Rust panic) and a successful one carrying a value.
Panic == [ok |-> FALSE, val |-> <<>>]
Ok(v) == [ok |-> TRUE, val |-> v]

\* Byte offset at which the k-th char of s starts.
offset(s, k) == len(SubSeq(s, 1, k - 1))

\* String::remove(idx): removes the char starting at byte idx; panics when
\* idx is not a char boundary (or is past the end).
remove(s, idx) ==
  IF \E k \in 1..Len(s) : offset(s, k) = idx
  THEN LET k == CHOOSE k \in 1..Len(s) : offset(s, k) = idx
       IN Ok(SubSeq(s, 1, k - 1) \o SubSeq(s, k + 1, Len(s)))
  ELSE Panic

\* Ord for String: lexicographic on bytes.
RECURSIVE str_lt(_, _)
str_lt(s, t) ==
  IF t = <<>> THEN FALSE
  ELSE IF s = <<>> THEN TRUE
  ELSE IF scalar(Head(s)) # scalar(Head(t)) THEN scalar(Head(s)) < scalar(Head(t))
  ELSE str_lt(Tail(s), Tail(t))

\* Iteration order of a BTreeMap / BTreeSet of strings: ascending.
RECURSIVE btree_iter(_)
btree_iter(S) ==
  IF S = {} THEN <<>>
  ELSE LET m == CHOOSE x \in S : \A y \in S \ {x} : str_lt(x, y)
       IN <<m>> \o btree_iter(S \ {m})

\* The orders in which a HashSet / HashMap / phf::Map holding S may be iterated.
hash_iter(S) ==
  {q \in [1..Cardinality(S) -> S] : \A x \in S : \E k \in DOMAIN q : q[k] = x}

Min(a, b) == IF a <= b THEN a ELSE b

\* HashMap::insert / BTreeMap insert on a map held as a function.
insert(map, k, v) == [x \in DOMAIN map \cup {k} |-> IF x = k THEN v ELSE map[x]]

EmptyMap == [x \in {} |-> 0]

(***************************************************************************)
(* generate_deletes                                                        *)
(***************************************************************************)
\* Every t.remove(i) of one level: for s in &queue, skipping the empty
\* string, for i in 0..s.len().
level_removes(queue) ==
  UNION {{remove(s, i) : i \in 0..(len(s) - 1)} : s \in {q \in queue : len(q) # 0}}

\* The loop "for _d in 0..max_distance" from iteration d on.
RECURSIVE deletes_from(_, _, _, _)
deletes_from(d, max_distance, queue, deletes) ==
  IF d >= max_distance THEN Ok(deletes)
  ELSE LET removed == level_removes(queue)
       IN IF \E r \in removed : ~r.ok THEN Panic
          ELSE LET next == {r.val : r \in removed} \ deletes
               IN IF next = {} THEN Ok(deletes)
                  ELSE deletes_from(d + 1, max_distance, next, deletes \cup next)

generate_deletes(word, max_distance) == deletes_from(0, max_distance, {word}, {})

(***************************************************************************)
(* damerau_levenshtein                                                     *)
(***************************************************************************)
RECURSIVE dp(_, _, _, _)
dp(a, b, i, j) ==
  IF j = 0 THEN i
  ELSE IF i = 0 THEN j
  ELSE LET cost == IF a[i] = b[j] THEN 0 ELSE 1
           base == Min(Min(dp(a, b, i - 1, j) + 1, dp(a, b, i, j - 1) + 1),
                       dp(a, b, i - 1, j - 1) + cost)
       IN IF i > 1 /\ j > 1 /\ a[i] = b[j - 1] /\ a[i - 1] = b[j]
          THEN Min(base, dp(a, b, i - 2, j - 2) + 1)
          ELSE base

\* A distance that does not take the early return for an empty b.
distance_empty_a_only(a, b) ==
  IF Len(a) = 0 THEN Min(Len(b), u8_MAX)
  ELSE IF Len(b) = 0 THEN 0
  ELSE Min(dp(a, b, Len(a), Len(b)), u8_MAX)

damerau_levenshtein(a, b) ==
  IF Len(a) = 0 THEN Min(Len(b), u8_MAX)
  ELSE IF Len(b) = 0 THEN Min(Len(a), u8_MAX)
  ELSE Min(dp(a, b, Len(a), Len(b)), u8_MAX)

(***************************************************************************)
(* SymSpell: the mutable engine                                            *)
(*   self = [max_distance, dictionary : word -> frequency,                 *)
(*           deletes : variant -> set of words]                            *)
(***************************************************************************)
new(max_distance) ==
  [max_distance |-> max_distance, dictionary |-> EmptyMap, deletes |-> EmptyMap]

\* self.deletes.entry(d).or_insert_with(HashSet::new).insert(word), for d in dels
index_word(deletes, dels, word) ==
  [d \in DOMAIN deletes \cup dels |->
     IF d \in dels
     THEN (IF d \in DOMAIN deletes THEN deletes[d] ELSE {}) \cup {word}
     ELSE deletes[d]]

\* self.dictionary.entry(word).or_insert(freq): the first frequency is kept.
insert_if_absent(dictionary, word, freq) ==
  IF word \in DOMAIN dictionary THEN dictionary ELSE insert(dictionary, word, freq)

\* self.dictionary.insert(word, freq)
dictionary_insert(dictionary, word, freq) == insert(dictionary, word, freq)

\* The loop of load_iter from the k-th entry of iter on; taken counts the
\* entries consumed from iter.  A panic of generate_deletes leaves the engine
\* as it is at that point: the word is already in the dictionary, its
\* variants are not indexed.
RECURSIVE load_from(_, _, _)
load_from(self, iter, k) ==
  IF k > Len(iter) THEN [ok |-> TRUE, val |-> self, taken |-> Len(iter)]
  ELSE LET word == iter[k].word
           freq == iter[k].freq
       IN IF is_empty(word) THEN load_from(self, iter, k + 1)
          ELSE LET inserted == [self EXCEPT !.dictionary =
                                   dictionary_insert(self.dictionary, word, freq)]
                   dels == generate_deletes(word, self.max_distance)
               IN IF ~dels.ok THEN [ok |-> FALSE, val |-> inserted, taken |-> k]
                  ELSE load_from([inserted EXCEPT !.deletes =
                                    index_word(self.deletes, dels.val, word)],
                                 iter, k + 1)

load_iter(self, iter) == load_from(self, iter, 1)

from_iter(max_distance, iter) == load_iter(new(max_distance), iter)

\* Option<usize>
None == [is_some |-> FALSE, val |-> 0]
Some(v) == [is_some |-> TRUE, val |-> v]

\* SymSpell::frequency: self.dictionary.get(word).copied()
frequency(self, word) ==
  IF word \in DOMAIN self.dictionary THEN Some(self.dictionary[word]) ELSE None

(***************************************************************************)
(* SymSpell::lookup                                                        *)
(***************************************************************************)
Suggestion(term, freq, distance) ==
  [term |-> term, frequency |-> freq, distance |-> distance]

\* Whether the probing loop generates the 1-deletions of current.
goes_deeper(current, max_distance) == len(current) > 1 /\ max_distance > 0

\* for i in 0..current.len() { s.remove(i); if !queue.contains(&s) { queue.push(s) } }
\* from byte index i on.
RECURSIVE push_removes(_, _, _)
push_removes(queue, current, i) ==
  IF i >= len(current) THEN Ok(queue)
  ELSE LET s == remove(current, i)
       IN IF ~s.ok THEN Panic
          ELSE push_removes(IF \E k \in DOMAIN queue : queue[k] = s.val
                            THEN queue ELSE Append(queue, s.val),
                            current, i + 1)

\* The bound of "for idx in 0..queue.len()": the range is built once, when
\* the loop is entered, from the queue as it is then.
loop_end(queue) == Len(queue)

\* self.deletes.get(&current)
deletes_get(deletes, current) ==
  IF current \in DOMAIN deletes THEN deletes[current] ELSE {}

\* The probing loop of SymSpell::lookup from index idx on; idx runs over 0..end.
RECURSIVE probe(_, _, _, _, _, _)
probe(self, max_distance, idx, end, queue, candidates) ==
  IF idx >= end \/ idx >= queue_limit THEN Ok(candidates)
  ELSE LET current == queue[idx + 1]
           cands == candidates \cup deletes_get(self.deletes, current)
       IN IF goes_deeper(current, max_distance)
          THEN LET pushed == push_removes(queue, current, 0)
               IN IF ~pushed.ok THEN Panic
                  ELSE probe(self, max_distance, idx + 1, end, pushed.val, cands)
          ELSE probe(self, max_distance, idx + 1, end, queue, cands)

\* The candidate words SymSpell::lookup gathers for term.
sym_candidates(self, term, max_distance) ==
  probe(self, max_distance, 0, loop_end(<<term>>), <<term>>, {})

\* The strings the probing loop looks up in the index, in order: current at
\* each self.deletes.get(&current), from index idx on.
RECURSIVE probes_from(_, _, _, _, _)
probes_from(max_distance, idx, end, queue, probes) ==
  IF idx >= end \/ idx >= queue_limit THEN Ok(probes)
  ELSE LET current == queue[idx + 1]
       IN IF goes_deeper(current, max_distance)
          THEN LET pushed == push_removes(queue, current, 0)
               IN IF ~pushed.ok THEN Panic
                  ELSE probes_from(max_distance, idx + 1, end, pushed.val,
                                   Append(probes, current))
          ELSE probes_from(max_distance, idx + 1, end, queue, Append(probes, current))

\* The strings SymSpell::lookup probes for term.
sym_probes(term, max_distance) ==
  probes_from(max_distance, 0, loop_end(<<term>>), <<term>>, <<>>)

\* A verification that keeps every candidate.
any_distance(distance, max_distance) == TRUE

\* if distance <= max_distance: the candidate is kept
within_bound(distance, max_distance) == distance <= max_distance

\* A frequency that is always the fallback 0.
fallback_zero(dictionary, cand) == 0

\* *self.dictionary.get(&cand).unwrap_or(&0)
freq_or_zero(dictionary, cand) ==
  IF cand \in DOMAIN dictionary THEN dictionary[cand] ELSE 0

\* A lookup without the exact-match step.
no_exact_match(self, term) == <<>>

\* The exact term, when it is a dictionary word, is the first result.
exact_match(self, term) ==
  IF term \in DOMAIN self.dictionary
  THEN <<Suggestion(term, self.dictionary[term], 0)>>
  ELSE <<>>

\* for cand in candidates { ... } over the iteration order iter, from its
\* k-th element on.
RECURSIVE verify(_, _, _, _, _, _, _)
verify(dictionary, term, max_distance, iter, k, considered, results) ==
  IF k > Len(iter) THEN results
  ELSE LET cand == iter[k]
       IN IF cand \in considered
          THEN verify(dictionary, term, max_distance, iter, k + 1, considered, results)
          ELSE LET distance == damerau_levenshtein(term, cand)
               IN verify(dictionary, term, max_distance, iter, k + 1,
                         considered \cup {cand},
                         IF within_bound(distance, max_distance)
                         THEN Append(results,
                                     Suggestion(cand, freq_or_zero(dictionary, cand), distance))
                         ELSE results)

\* results.iter().map(|r| r.distance).min().unwrap_or(u8::MAX)
min_distance(results) ==
  IF results = <<>> THEN u8_MAX
  ELSE CHOOSE m \in {results[k].distance : k \in DOMAIN results} :
         \A k \in DOMAIN results : m <= results[k].distance

\* A selection that does not filter by distance.
all_distances(results, d) == results

\* results.into_iter().filter(|r| r.distance == min_distance)
RECURSIVE at_distance(_, _)
at_distance(results, d) ==
  IF results = <<>> THEN <<>>
  ELSE (IF Head(results).distance = d THEN <<Head(results)>> ELSE <<>>)
       \o at_distance(Tail(results), d)

\* A Top that takes the first entry at the minimum distance.
first_entry(filtered, k, best) ==
  IF filtered = <<>> THEN <<>> ELSE <<filtered[1]>>

\* Verbosity::Top: the first entry of the strictly highest frequency.
RECURSIVE top_from(_, _, _)
top_from(filtered, k, best) ==
  IF k > Len(filtered) THEN best
  ELSE top_from(filtered, k + 1,
                IF best = <<>> THEN <<filtered[k]>>
                ELSE IF filtered[k].frequency > best[1].frequency THEN <<filtered[k]>>
                ELSE best)

\* A comparator under which all entries are equal: the order is left as it is.
unordered(verbosity, e, x) == FALSE

\* The comparators of sort_by: whether e is ordered strictly after x.
\*   Closest: b.frequency.cmp(&a.frequency)
\*   All:     a.distance.cmp(&b.distance).then_with(|| b.frequency.cmp(&a.frequency))
ordered_after(verbosity, e, x) ==
  IF verbosity = "Closest" THEN e.frequency < x.frequency
  ELSE e.distance > x.distance
       \/ (e.distance = x.distance /\ e.frequency < x.frequency)

\* slice::sort_by is stable: x goes before the first entry ordered after it.
RECURSIVE sorted_insert(_, _, _)
sorted_insert(verbosity, sorted, x) ==
  IF sorted = <<>> THEN <<x>>
  ELSE IF ordered_after(verbosity, Head(sorted), x) THEN <<x>> \o sorted
  ELSE <<Head(sorted)>> \o sorted_insert(verbosity, Tail(sorted), x)

RECURSIVE sort_from(_, _, _, _)
sort_from(verbosity, list, k, sorted) ==
  IF k > Len(list) THEN sorted
  ELSE sort_from(verbosity, list, k + 1, sorted_insert(verbosity, sorted, list[k]))

sort_by(verbosity, list) == sort_from(verbosity, list, 1, <<>>)

\* The selection by verbosity that ends lookup.
select(results, verbosity) ==
  IF results = <<>> THEN <<>>
  ELSE CASE verbosity = "Top" ->
              top_from(at_distance(results, min_distance(results)), 1, <<>>)
         [] verbosity = "Closest" ->
              sort_by("Closest", at_distance(results, min_distance(results)))
         [] verbosity = "All" -> sort_by("All", results)

\* The results of the verification loop for one iteration order of candidates.
sym_results(self, term, max_distance, iter) ==
  verify(self.dictionary, term, max_distance, iter, 1, {}, exact_match(self, term))

\* A cap that keeps the requested value.
uncapped(max_distance, configured) == max_distance

\* std::cmp::min(max_distance, self.max_distance)
capped_distance(max_distance, configured) == Min(max_distance, configured)

\* SymSpell::lookup: the outcomes the call may have, one per iteration order
\* of the HashSet candidates; an outcome is Ok(list) or Panic.
lookup(self, term, max_distance, verbosity) ==
  IF is_empty(term) THEN {Ok(<<>>)}
  ELSE LET capped == capped_distance(max_distance, self.max_distance)
           candidates == sym_candidates(self, term, capped)
       IN IF ~candidates.ok THEN {Panic}
          ELSE {Ok(select(sym_results(self, term, capped, iter), verbosity)) :
                  iter \in hash_iter(candidates.val)}

(***************************************************************************)
(* EmbeddedSymSpell: the precomputed engine                                *)
(*   self = [max_distance, dict : word -> frequency,                       *)
(*           deletes : variant -> sequence (static slice) of words]        *)
(***************************************************************************)
from_phf(max_distance, dict, deletes) ==
  [max_distance |-> max_distance, dict |-> dict, deletes |-> deletes]

\* EmbeddedSymSpell::frequency: self.dict.get(word).copied()
emb_frequency(self, word) ==
  IF word \in DOMAIN self.dict THEN Some(self.dict[word]) ELSE None

\* self.deletes.get(&current): the words of the slice, empty when absent
slice_get(deletes, current) ==
  IF current \in DOMAIN deletes
  THEN {deletes[current][k] : k \in DOMAIN deletes[current]}
  ELSE {}

\* The probing loop of EmbeddedSymSpell::lookup from index idx on.
RECURSIVE emb_probe(_, _, _, _, _, _, _)
emb_probe(self, max_distance, idx, end, queue, visited_deletions, candidates) ==
  IF idx >= end \/ idx >= queue_limit THEN Ok(candidates)
  ELSE LET current == queue[idx + 1]
           cands == IF current \in visited_deletions THEN candidates
                    ELSE candidates \cup slice_get(self.deletes, current)
           visited == visited_deletions \cup {current}
       IN IF goes_deeper(current, max_distance)
          THEN LET pushed == push_removes(queue, current, 0)
               IN IF ~pushed.ok THEN Panic
                  ELSE emb_probe(self, max_distance, idx + 1, end, pushed.val,
                                 visited, cands)
          ELSE emb_probe(self, max_distance, idx + 1, end, queue, visited, cands)

emb_candidates(self, term, max_distance) ==
  emb_probe(self, max_distance, 0, loop_end(<<term>>), <<term>>, {}, {})

\* for cand in candidates { ... } of EmbeddedSymSpell::lookup, from the k-th
\* element of the iteration order on.
RECURSIVE emb_verify(_, _, _, _, _, _)
emb_verify(dict, term, max_distance, iter, k, results) ==
  IF k > Len(iter) THEN results
  ELSE LET cand == iter[k]
           distance == damerau_levenshtein(term, cand)
       IN emb_verify(dict, term, max_distance, iter, k + 1,
                     IF within_bound(distance, max_distance)
                     THEN Append(results,
                                 Suggestion(cand, freq_or_zero(dict, cand), distance))
                     ELSE results)

\* if let Some(&freq) = self.dict.get(term) { return vec![...] }
emb_exact_return(self, term) == term \in DOMAIN self.dict

\* EmbeddedSymSpell::lookup: the outcomes the call may have.
emb_lookup(self, term, max_distance, verbosity) ==
  IF is_empty(term) THEN {Ok(<<>>)}
  ELSE LET capped == capped_distance(max_distance, self.max_distance)
       IN IF emb_exact_return(self, term)
          THEN {Ok(<<Suggestion(term, self.dict[term], 0)>>)}
          ELSE LET candidates == emb_candidates(self, term, capped)
               IN IF ~candidates.ok THEN {Panic}
                  ELSE {Ok(select(emb_verify(self.dict, term, capped, iter, 1, <<>>),
                                  verbosity)) :
                          iter \in hash_iter(candidates.val)}

(***************************************************************************)
(* include_dictionary!: the build of a store from the entries of a file    *)
(***************************************************************************)
\* let word = if lowercase { word_raw.to_lowercase() } else { word_raw }
normalize(word_raw, lowercase) == IF lowercase THEN to_lowercase(word_raw) ELSE word_raw

\* dict.insert(word, freq): the last frequency replaces the earlier ones.
entry_overwrite(dict, word, freq) == insert(dict, word, freq)

\* *dict.entry(word.clone()).or_insert(0) += freq
entry_add(dict, word, freq) ==
  insert(dict, word, (IF word \in DOMAIN dict THEN dict[word] ELSE 0) + freq)

\* The loop over the lines of the file from the k-th (word_raw, freq) on.
RECURSIVE build_dict(_, _, _, _)
build_dict(entries, lowercase, k, dict) ==
  IF k > Len(entries) THEN dict
  ELSE build_dict(entries, lowercase, k + 1,
                  entry_add(dict, normalize(entries[k].word, lowercase), entries[k].freq))

\* deletes_map.entry(d.clone()).or_insert(vec![word.clone()]), for d in next:
\* a variant keeps the first word only.
first_word_only(deletes_map, next, word) ==
  [d \in DOMAIN deletes_map \cup next |->
     IF d \in DOMAIN deletes_map THEN deletes_map[d] ELSE <<word>>]

\* deletes_map.entry(d.clone()).or_default().push(word.clone()), for d in next
push_word(deletes_map, next, word) ==
  [d \in DOMAIN deletes_map \cup next |->
     IF d \in next
     THEN Append(IF d \in DOMAIN deletes_map THEN deletes_map[d] ELSE <<>>, word)
     ELSE deletes_map[d]]

\* The loop "for _d in 0..max_distance" of the precompute path for one word,
\* from iteration d on; acc = [map, total] is deletes_map and total_deletes.
RECURSIVE precompute_word(_, _, _, _, _, _)
precompute_word(word, d, max_distance, queue, generated, acc) ==
  IF d >= max_distance THEN Ok(acc)
  ELSE LET removed == level_removes(queue)
       IN IF \E r \in removed : ~r.ok THEN Panic
          ELSE LET next == {r.val : r \in removed} \ generated
               IN IF next = {} THEN Ok(acc)
                  ELSE precompute_word(word, d + 1, max_distance, next,
                                       generated \cup next,
                                       [map |-> push_word(acc.map, next, word),
                                        total |-> acc.total + Cardinality(next)])

\* for (word, _freq) in dict.iter(), from the k-th word of the BTreeMap on.
RECURSIVE precompute_from(_, _, _, _)
precompute_from(words, k, max_distance, acc) ==
  IF k > Len(words) THEN Ok(acc)
  ELSE LET r == precompute_word(words[k], 0, max_distance, {words[k]}, {}, acc)
       IN IF ~r.ok THEN Panic
          ELSE precompute_from(words, k + 1, max_distance, r.val)

\* The precompute path: the embedded engine, or a panic of the macro (a
\* String::remove off a char boundary, or more than max_deletes entries).
precompute_store(dict, max_distance, max_deletes) ==
  LET r == precompute_from(btree_iter(DOMAIN dict), 1, max_distance,
                           [map |-> EmptyMap, total |-> 0])
  IN IF ~r.ok THEN Panic
     ELSE IF r.val.total > max_deletes THEN Panic
     ELSE Ok(from_phf(max_distance, dict, r.val.map))

\* DICT_PHF.entries().map(|(k, v)| (k.to_string(), *v)) in the order iter
phf_entries(dict, iter) == [k \in DOMAIN iter |-> [word |-> iter[k], freq |-> dict[iter[k]]]]

(***************************************************************************)
(* Inputs                                                                  *)
(***************************************************************************)
\* Words offered to load_iter; the empty word is skipped by it.
Vocabulary == {<<>>, <<"a">>, <<"a", "b">>, <<"a", "c">>, <<"eacute">>}

\* Query terms.
Terms ==
  {<<>>, <<"a">>, <<"b">>, <<"a", "b">>, <<"a", "c">>, <<"b", "a">>, <<"eacute">>}

Verbosity == {"Top", "Closest", "All"}

Entries == [word : Vocabulary, freq : 0..MaxFreq]

\* The iterators handed to load_iter.
Batches == UNION {[1..n -> Entries] : n \in 1..MaxBatch}

\* The (word_raw, freq) pairs of the lines of a dictionary file: a line is
\* trimmed and skipped when empty, so word_raw is never empty.
FileEntries == [word : (Vocabulary \ {<<>>}) \cup {<<"A", "b">>}, freq : 0..MaxFreq]
Files == UNION {[1..n -> FileEntries] : n \in 0..MaxFile}

(***************************************************************************)
(* State                                                                   *)
(*   sym      the SymSpell engine                                          *)
(*   emb      the EmbeddedSymSpell engine                                  *)
(*   out      the call in progress and what it returned; NoCall between    *)
(*            calls                                                        *)
(*   supplied history: the entries that load_iter took from its iterators  *)
(*   file     history: the arguments of the include_dictionary! expansion  *)
(*   panicked a call panicked; the program is over                         *)
(***************************************************************************)
NoCall == [op |-> "none"]
NoFile == [built |-> "none"]
NoEmb == from_phf(0, EmptyMap, EmptyMap)
NoHistory == [freq |-> EmptyMap, replaced |-> FALSE]

Call(op, store, term, max_distance, verbosity, ret) ==
  [op |-> op, store |-> store, term |-> term, max_distance |-> max_distance,
   verbosity |-> verbosity, ret |-> ret]

\* SymSpell::new(N)
Init ==
  /\ \E N \in 0..MaxN : sym = new(N)
  /\ emb = NoEmb
  /\ out = NoCall
  /\ supplied = NoHistory
  /\ file = NoFile
  /\ panicked = FALSE

\* Between calls of a program that has not panicked.
Idle == ~panicked /\ out = NoCall

\* History of the entries load_iter took from its iterators: freq gives for
\* each word the frequency of the last entry naming it; replaced tells whether
\* the latest load_iter took an entry for a word whose last entry before it
\* gave a different frequency.
RECURSIVE supply(_, _, _, _)
supply(history, iter, k, n) ==
  IF k > n THEN history
  ELSE LET w == iter[k].word
           f == iter[k].freq
       IN IF w = <<>> THEN supply(history, iter, k + 1, n)
          ELSE supply([freq |-> insert(history.freq, w, f),
                       replaced |-> \/ history.replaced
                                    \/ (w \in DOMAIN history.freq /\ history.freq[w] # f)],
                      iter, k + 1, n)

\* sym.load_iter(iter)
Load ==
  /\ Idle
  /\ \E iter \in Batches :
       \E r \in {load_iter(sym, iter)} :
         /\ Cardinality(DOMAIN r.val.dictionary) <= MaxWords
         /\ sym' = r.val
         /\ panicked' = ~r.ok
         /\ supplied' = supply([supplied EXCEPT !.replaced = FALSE], iter, 1, r.taken)
  /\ UNCHANGED <<emb, out, file>>

\* A lookup that empties the engine it reads.
LookupDraining ==
  /\ Idle
  /\ \E term \in Terms, max_distance \in 0..MaxD, verbosity \in Verbosity :
       \E ret \in lookup(sym, term, max_distance, verbosity) :
         /\ out' = Call("lookup", "sym", term, max_distance, verbosity, ret)
         /\ panicked' = ~ret.ok
  /\ sym' = new(sym.max_distance)
  /\ UNCHANGED <<emb, supplied, file>>

\* sym.lookup(term, max_distance, verbosity)
Lookup ==
  /\ Idle
  /\ \E term \in Terms, max_distance \in 0..MaxD, verbosity \in Verbosity :
       \E ret \in lookup(sym, term, max_distance, verbosity) :
         /\ out' = Call("lookup", "sym", term, max_distance, verbosity, ret)
         /\ panicked' = ~ret.ok
  /\ UNCHANGED <<sym, emb, supplied, file>>

\* sym.frequency(word)
Frequency ==
  /\ Idle
  /\ \E word \in Vocabulary \cup Terms :
       out' = Call("frequency", "sym", word, 0, "None", frequency(sym, word))
  /\ UNCHANGED <<sym, emb, supplied, file, panicked>>

\* emb.lookup(term, max_distance, verbosity)
EmbLookup ==
  /\ Idle
  /\ \E term \in Terms, max_distance \in 0..MaxD, verbosity \in Verbosity :
       \E ret \in emb_lookup(emb, term, max_distance, verbosity) :
         /\ out' = Call("lookup", "emb", term, max_distance, verbosity, ret)
         /\ panicked' = ~ret.ok
  /\ UNCHANGED <<sym, emb, supplied, file>>

\* emb.frequency(word)
EmbFrequency ==
  /\ Idle
  /\ \E word \in Vocabulary \cup Terms :
       out' = Call("frequency", "emb", word, 0, "None", emb_frequency(emb, word))
  /\ UNCHANGED <<sym, emb, supplied, file, panicked>>

\* The caller is done with the value a call returned.
Return ==
  /\ ~panicked /\ out # NoCall
  /\ out' = NoCall
  /\ UNCHANGED <<sym, emb, supplied, file, panicked>>

\* The mutable engine: loads, lookups and frequency queries in any order.
Next == Load \/ Lookup \/ Frequency \/ Return

Spec == Init /\ [][Next]_vars

(***************************************************************************)
(* The expansion of include_dictionary!                                    *)
(***************************************************************************)
Built(kind, entries, lowercase, max_distance) ==
  [built |-> kind, entries |-> entries, lowercase |-> lowercase,
   max_distance |-> max_distance]

InitBuild ==
  /\ sym = new(0)
  /\ emb = NoEmb
  /\ out = NoCall
  /\ supplied = NoHistory
  /\ file = NoFile
  /\ panicked = FALSE

\* include_dictionary!(file, max_distance = N, lowercase = .., precompute = true)
IncludePrecomputed ==
  /\ file = NoFile
  /\ \E entries \in Files, lowercase \in BOOLEAN, max_distance \in 0..MaxN :
       \E r \in {precompute_store(build_dict(entries, lowercase, 1, EmptyMap),
                                  max_distance, max_deletes_default)} :
          /\ emb' = IF r.ok THEN r.val ELSE NoEmb
          /\ panicked' = ~r.ok
          /\ file' = Built(IF r.ok THEN "embedded" ELSE "failed",
                           entries, lowercase, max_distance)
  /\ UNCHANGED <<sym, out, supplied>>

\* include_dictionary!(file, max_distance = N, lowercase = .., precompute = false):
\* SymSpell::new(N) and load_iter over the entries of DICT_PHF.
IncludeRuntime ==
  /\ file = NoFile
  /\ \E entries \in Files, lowercase \in BOOLEAN, max_distance \in 0..MaxN :
       \E dict \in {build_dict(entries, lowercase, 1, EmptyMap)} :
         \E iter \in hash_iter(DOMAIN dict) :
           \E r \in {load_iter(new(max_distance), phf_entries(dict, iter))} :
             /\ sym' = r.val
             /\ panicked' = ~r.ok
             /\ file' = Built("runtime", entries, lowercase, max_distance)
  /\ UNCHANGED <<emb, out, supplied>>

NextBuild == IncludePrecomputed \/ IncludeRuntime

SpecBuild == InitBuild /\ [][NextBuild]_vars

(***************************************************************************)
(* Two engines built from one dictionary file with one max_distance, one   *)
(* with precompute = true and one with precompute = false, then queried.   *)
(***************************************************************************)
InitStores ==
  \E entries \in Files, lowercase \in BOOLEAN, N \in 0..MaxN :
    \E dict \in {build_dict(entries, lowercase, 1, EmptyMap)} :
    \E e \in {precompute_store(dict, N, max_deletes_default)} :
    \E s \in {load_iter(new(N), phf_entries(dict, btree_iter(DOMAIN dict)))} :
       /\ e.ok /\ s.ok
       /\ emb = e.val
       /\ sym = s.val
       /\ out = NoCall
       /\ supplied = NoHistory
       /\ file = NoFile
       /\ panicked = FALSE

NextStores == Lookup \/ EmbLookup \/ Frequency \/ EmbFrequency \/ Return

SpecStores == InitStores /\ [][NextStores]_vars

(***************************************************************************)
(* The free functions, called on their own                                 *)
(***************************************************************************)
Letters == {"a", "b", "c"}

\* The strings over Letters of at most n chars.
RECURSIVE StringsUpTo(_)
StringsUpTo(n) ==
  IF n = 0 THEN {<<>>}
  ELSE LET shorter == StringsUpTo(n - 1)
       IN shorter \cup {Append(s, c) : s \in shorter, c \in Letters}

Strings == StringsUpTo(MaxLen)

\* Words given to generate_deletes: single-byte strings and two with a
\* two-byte char.
DeleteWords == (Strings \ {<<>>}) \cup {<<"eacute">>, <<"a", "eacute">>}

InitFree ==
  /\ sym = new(0)
  /\ emb = NoEmb
  /\ out = NoCall
  /\ supplied = NoHistory
  /\ file = NoFile
  /\ panicked = FALSE

\* damerau_levenshtein(a, b)
Distance ==
  /\ Idle
  /\ \E a \in Strings, b \in Strings :
       out' = [op |-> "damerau_levenshtein", a |-> a, b |-> b,
               ret |-> damerau_levenshtein(a, b)]
  /\ UNCHANGED <<sym, emb, supplied, file, panicked>>

\* generate_deletes(word, max_distance)
Deletes ==
  /\ Idle
  /\ \E word \in DeleteWords, max_distance \in 0..(MaxN + 1) :
       \E ret \in {generate_deletes(word, max_distance)} :
         /\ out' = [op |-> "generate_deletes", word |-> word,
                    max_distance |-> max_distance, ret |-> ret]
         /\ panicked' = ~ret.ok
  /\ UNCHANGED <<sym, emb, supplied, file>>

NextFree == Distance \/ Deletes \/ Return

SpecFree == InitFree /\ [][NextFree]_vars

(***************************************************************************)
(* Properties                                                              *)
(***************************************************************************)
\* A lookup has returned (without a panic) from the store named.
Returned(store) == out.op = "lookup" /\ out.store = store /\ out.ret.ok

\* The dictionary of the store a call went to.
DictOf(store) == IF store = "sym" THEN sym.dictionary ELSE emb.dict

\* The suggestions of a returned list, and the words they name.
Elems(list) == {list[k] : k \in DOMAIN list}
Words(list) == {list[k].term : k \in DOMAIN list}

\* C1: completeness of lookup. After any loads, lookup(term, d, All) on a
\* SymSpell with a nonempty term lists every dictionary word whose edit
\* distance to the term is at most min(d, N).
C1_Complete ==
  (Returned("sym") /\ out.verbosity = "All" /\ out.term # <<>>) =>
    \A w \in DOMAIN sym.dictionary :
      damerau_levenshtein(out.term, w) <= Min(out.max_distance, sym.max_distance)
        => w \in Words(out.ret.val)

\* C2: when the term is a dictionary word, lookup(term, d, Top) returns
\* exactly one suggestion: the term itself, at distance 0, with its stored
\* frequency; for every d and on either store.
C2_ExactTop ==
  (out.op = "lookup" /\ out.verbosity = "Top" /\ out.term \in DOMAIN DictOf(out.store)) =>
    out.ret = Ok(<<Suggestion(out.term, DictOf(out.store)[out.term], 0)>>)

\* C2 witness: a Top lookup of a dictionary word of the mutable store that the
\* index maps to a more frequent word, and one of the embedded store.
C2_Witness ==
  /\ Returned("sym") /\ out.verbosity = "Top" /\ out.max_distance >= 1
  /\ out.term \in DOMAIN sym.dictionary
  /\ \E w \in deletes_get(sym.deletes, out.term) :
       sym.dictionary[w] > sym.dictionary[out.term]
  /\ out.term \in DOMAIN emb.dict /\ emb.max_distance >= 1

\* C3: no suggestion of lookup(term, d, All) has a distance above min(d, N).
C3_AllWithinBound ==
  (Returned("sym") /\ out.verbosity = "All") =>
    \A k \in DOMAIN out.ret.val :
      out.ret.val[k].distance <= Min(out.max_distance, sym.max_distance)

\* C3 witness: an All lookup that returned a suggestion and had gathered a
\* candidate farther from the term than the requested distance.
C3_Witness ==
  /\ Returned("sym") /\ out.verbosity = "All" /\ out.ret.val # <<>>
  /\ \E w \in deletes_get(sym.deletes, out.term) :
       damerau_levenshtein(out.term, w) > out.max_distance

\* Least distance of a nonempty list.
LeastDistance(list) ==
  CHOOSE m \in {list[k].distance : k \in DOMAIN list} :
    \A k \in DOMAIN list : m <= list[k].distance

\* C4: a Closest lookup returns suggestions only if the All lookup of the same
\* term and distance does; each has the least distance of the All list, and
\* every entry of the All list at that distance is among them.
C4_ClosestOfAll ==
  (Returned("sym") /\ out.verbosity = "Closest") =>
    \A all \in lookup(sym, out.term, out.max_distance, "All") :
      /\ all.ok
      /\ out.ret.val # <<>> => all.val # <<>>
      /\ \A k \in DOMAIN out.ret.val :
           out.ret.val[k].distance = LeastDistance(all.val)
      /\ \A j \in DOMAIN all.val :
           all.val[j].distance = LeastDistance(all.val) => all.val[j] \in Elems(out.ret.val)

\* C4 witness: a Closest lookup that returned a suggestion while the All
\* lookup also lists a farther one.
C4_Witness ==
  /\ Returned("sym") /\ out.verbosity = "Closest" /\ out.ret.val # <<>>
  /\ \E all \in lookup(sym, out.term, out.max_distance, "All") :
       Len(all.val) > Len(out.ret.val)

\* C5: determinism of lookup. With no load in between, a second identical
\* call returns the list the first call returned, ties included.
C5_Deterministic ==
  Returned("sym") =>
    \A again \in lookup(sym, out.term, out.max_distance, out.verbosity) :
      again = out.ret

\* C6: last write wins. frequency(w) is absent when no load supplied w and
\* is otherwise the frequency of the most recent entry loaded for w.
C6_LastWriteWins ==
  \A w \in Vocabulary \cup Terms :
    frequency(sym, w) =
      IF w \in DOMAIN supplied.freq THEN Some(supplied.freq[w]) ELSE None

\* C6 witness: the latest load replaced the frequency of a word, and another
\* word was never loaded.
C6_Witness ==
  /\ supplied.replaced
  /\ ~panicked
  /\ \E w \in Vocabulary \ {<<>>} : w \notin DOMAIN supplied.freq

\* Sum of the frequencies of the entries of a file at the indices K.
RECURSIVE SumFreq(_, _)
SumFreq(entries, K) ==
  IF K = {} THEN 0
  ELSE LET k == CHOOSE k \in K : TRUE
       IN entries[k].freq + SumFreq(entries, K \ {k})

\* Indices of the entries of the file whose normalized word is w.
LinesOf(w) ==
  {k \in DOMAIN file.entries : normalize(file.entries[k].word, file.lowercase) = w}

\* C7: duplicates are summed. The embedded store holds exactly the normalized
\* words of the file, each with the sum of the frequencies of its entries.
C7_DuplicatesSummed ==
  file.built = "embedded" =>
    /\ DOMAIN emb.dict =
         {normalize(file.entries[k].word, file.lowercase) : k \in DOMAIN file.entries}
    /\ \A w \in DOMAIN emb.dict : emb.dict[w] = SumFreq(file.entries, LinesOf(w))

\* C7 witness: a file in which two entries with different raw words and
\* nonzero frequencies normalize to one word.
C7_Witness ==
  /\ file.built = "embedded"
  /\ \E i, j \in DOMAIN file.entries :
       /\ file.entries[i].word # file.entries[j].word
       /\ normalize(file.entries[i].word, file.lowercase)
            = normalize(file.entries[j].word, file.lowercase)
       /\ file.entries[i].freq > 0 /\ file.entries[j].freq > 0

\* The outcomes the same lookup may have on the other store.
OtherStore(store, term, max_distance, verbosity) ==
  IF store = "sym" THEN emb_lookup(emb, term, max_distance, verbosity)
  ELSE lookup(sym, term, max_distance, verbosity)

\* C8: store equivalence. When both stores hold the same entries with the
\* same configured distance, what a lookup returned on one store is a list
\* the same lookup may return on the other.
C8_StoresAgree ==
  (/\ out.op = "lookup"
   /\ emb.dict = sym.dictionary
   /\ emb.max_distance = sym.max_distance) =>
    out.ret \in OtherStore(out.store, out.term, out.max_distance, out.verbosity)

\* C9: lookup never fails, whatever the term, distance and verbosity.
C9_NeverPanics == out.op = "lookup" => out.ret.ok

\* C10: an empty term yields the empty list, for every store content,
\* requested distance and verbosity.
C10_EmptyTerm ==
  (out.op = "lookup" /\ out.term = <<>>) => out.ret = Ok(<<>>)

\* C10 witness: a lookup of the empty term on a mutable store whose index has
\* the empty string as a variant, with the distance that reaches it.
C10_Witness ==
  /\ out.op = "lookup" /\ out.store = "sym" /\ out.term = <<>>
  /\ <<>> \in DOMAIN sym.deletes
  /\ \E w \in sym.deletes[<<>>] : Len(w) <= Min(out.max_distance, sym.max_distance)

\* The outcomes a lookup may have on the store named.
Outcomes(store, term, max_distance, verbosity) ==
  IF store = "sym" THEN lookup(sym, term, max_distance, verbosity)
  ELSE emb_lookup(emb, term, max_distance, verbosity)

\* The configured distance of the store named.
ConfiguredN(store) == IF store = "sym" THEN sym.max_distance ELSE emb.max_distance

\* C11: the requested distance is capped to the configured N. A lookup with
\* d >= N returns what the lookup of the same term and verbosity with d = N
\* may return, and the two have the same possible results.
C11_Capped ==
  (out.op = "lookup" /\ out.max_distance >= ConfiguredN(out.store)) =>
    /\ out.ret \in Outcomes(out.store, out.term, ConfiguredN(out.store), out.verbosity)
    /\ Outcomes(out.store, out.term, out.max_distance, out.verbosity)
         = Outcomes(out.store, out.term, ConfiguredN(out.store), out.verbosity)

\* C11 witness: a lookup with a requested distance above the configured one
\* that returned suggestions.
C11_Witness ==
  /\ out.op = "lookup" /\ out.ret.ok /\ out.ret.val # <<>>
  /\ out.max_distance > ConfiguredN(out.store)
  /\ ConfiguredN(out.store) >= 1

\* C12: lookup and frequency are read-only. A step in which one of them
\* returns leaves the dictionary, the deletion index and the configured
\* distance of the engine as they were.
C12_ReadOnly ==
  [][(out' # out /\ out' # NoCall /\ out'.op \in {"lookup", "frequency"})
       => (sym' = sym /\ emb' = emb)]_vars

\* C12 witness: a lookup on an engine loaded with a word it has indexed
\* returned suggestions.
C12_Witness ==
  /\ out.op = "lookup" /\ out.store = "sym" /\ out.ret.ok /\ out.ret.val # <<>>
  /\ DOMAIN supplied.freq # {}
  /\ DOMAIN sym.deletes # {}

\* The strings one unit-cost edit away from s: a deletion, an insertion, a
\* substitution or a transposition of two adjacent chars.
OneEdit(s) ==
  LET n == Len(s)
  IN {SubSeq(s, 1, k - 1) \o SubSeq(s, k + 1, n) : k \in 1..n}
     \cup {SubSeq(s, 1, k) \o <<c>> \o SubSeq(s, k + 1, n) : k \in 0..n, c \in Letters}
     \cup {[s EXCEPT ![k] = c] : k \in 1..n, c \in Letters}
     \cup {[s EXCEPT ![k] = s[k + 1], ![k + 1] = s[k]] : k \in 1..(n - 1)}

\* The length of a shortest sequence of edits leading from a string of
\* reached to b, k edits having been made so far; intermediate strings have
\* at most MaxLen chars.
RECURSIVE EditSteps(_, _, _)
EditSteps(reached, b, k) ==
  IF b \in reached THEN k
  ELSE EditSteps(reached \cup {t \in UNION {OneEdit(s) : s \in reached} : Len(t) <= MaxLen},
                 b, k + 1)

MinEdits(a, b) == EditSteps({a}, b, 0)

\* C13: damerau_levenshtein(a, b) is the minimum number of unit-cost
\* insertions, deletions, substitutions and adjacent transpositions that
\* transform a into b.
C13_MinimumEdits ==
  out.op = "damerau_levenshtein" => out.ret = MinEdits(out.a, out.b)

\* C14: the distance function is symmetric, also when a string is empty.
C14_Symmetric ==
  out.op = "damerau_levenshtein" => out.ret = damerau_levenshtein(out.b, out.a)

\* C14 witness: a distance between two different strings of different
\* lengths that a transposition shortens, and one from the empty string.
C14_Witness ==
  /\ out.op = "damerau_levenshtein"
  /\ Len(out.a) = 2 /\ Len(out.b) = 3 /\ out.ret = 2
  /\ out.a[1] = out.b[2] /\ out.a[2] = out.b[1] /\ out.a[1] # out.a[2]
  /\ damerau_levenshtein(<<>>, out.b) = 3

\* The entries of a list at its least distance.
Nearest(list) == {e \in Elems(list) : e.distance = LeastDistance(list)}

\* C15: Top selection. A Top lookup is empty exactly when the All lookup of
\* the same term and distance is (no verified candidate); otherwise it holds
\* one suggestion, at the least distance of the verified candidates and with
\* the highest frequency among those at that distance.
C15_TopSelection ==
  (out.op = "lookup" /\ out.ret.ok /\ out.verbosity = "Top") =>
    \A all \in Outcomes(out.store, out.term, out.max_distance, "All") :
      /\ all.ok
      /\ out.ret.val = <<>> <=> all.val = <<>>
      /\ all.val # <<>> =>
           /\ Len(out.ret.val) = 1
           /\ out.ret.val[1] \in Nearest(all.val)
           /\ \A e \in Nearest(all.val) : e.frequency <= out.ret.val[1].frequency

\* C15 witness: a Top lookup whose verified candidates at the least distance
\* differ in frequency.
C15_Witness ==
  /\ out.op = "lookup" /\ out.ret.ok /\ out.verbosity = "Top" /\ out.ret.val # <<>>
  /\ \E all \in Outcomes(out.store, out.term, out.max_distance, "All") :
       \E e \in Nearest(all.val) : e.frequency < out.ret.val[1].frequency

\* C16: result ordering. A list returned under All is sorted by distance
\* ascending and, among equal distances, by frequency descending; a list
\* returned under Closest is sorted by frequency descending.
C16_Ordered ==
  (out.op = "lookup" /\ out.ret.ok) =>
    \A i, j \in DOMAIN out.ret.val :
      i < j =>
        /\ out.verbosity = "All" =>
             \/ out.ret.val[i].distance < out.ret.val[j].distance
             \/ /\ out.ret.val[i].distance = out.ret.val[j].distance
                /\ out.ret.val[i].frequency >= out.ret.val[j].frequency
        /\ out.verbosity = "Closest" =>
             out.ret.val[i].frequency >= out.ret.val[j].frequency

\* C16 witness: an All list whose first two entries are at one distance with
\* different frequencies.
C16_Witness ==
  /\ out.op = "lookup" /\ out.ret.ok /\ out.verbosity = "All"
  /\ Len(out.ret.val) >= 2
  /\ out.ret.val[1].distance = out.ret.val[2].distance
  /\ out.ret.val[1].frequency > out.ret.val[2].frequency

\* The strings obtained from the strings of S by deleting one char.
CharDeletions(S) ==
  UNION {{SubSeq(s, 1, k - 1) \o SubSeq(s, k + 1, Len(s)) : k \in 1..Len(s)} : s \in S}

\* The strings obtained from the strings of S by deleting 0..e chars.
RECURSIVE Expansion(_, _)
Expansion(S, e) ==
  IF e = 0 THEN S ELSE S \cup Expansion(CharDeletions(S), e - 1)

\* C17: query expansion. With e = min(d, N), a lookup probes the index with
\* exactly the term and the strings obtained from it by 1..e deletions of a
\* char, each once, and its candidates are the union of their index entries.
C17_Expansion ==
  (Returned("sym") /\ out.term # <<>>) =>
    LET e == Min(out.max_distance, sym.max_distance)
        probes == sym_probes(out.term, e).val
        expansion == Expansion({out.term}, e)
    IN /\ {probes[k] : k \in DOMAIN probes} = expansion
       /\ \A i, j \in DOMAIN probes : probes[i] = probes[j] => i = j
       /\ sym_candidates(sym, out.term, e).val
            = UNION {deletes_get(sym.deletes, v) : v \in expansion}

\* The strings obtained from word by deleting k chars, 1 <= k <= n.
Variants(word, n) ==
  IF n = 0 THEN {} ELSE Expansion(CharDeletions({word}), n - 1)

\* C18: index invariant. After any loads, the index entry of every string v
\* is exactly the set of dictionary words that have v among the strings
\* obtained from them by 1..N deletions of a char.
C18_IndexInvariant ==
  \A v \in DOMAIN sym.deletes
           \cup UNION {Variants(w, sym.max_distance) : w \in DOMAIN sym.dictionary} :
    deletes_get(sym.deletes, v)
      = {w \in DOMAIN sym.dictionary : v \in Variants(w, sym.max_distance)}

\* C19: generate_deletes(word, N) returns, for every nonempty word, exactly
\* the strings obtained from word by deleting k chars, 1 <= k <= min(N, length
\* of word): never the word itself, the empty string iff N >= length of word,
\* and nothing when N = 0.
C19_DeletesExact ==
  out.op = "generate_deletes" =>
    /\ out.ret = Ok(Variants(out.word, out.max_distance))
    /\ out.word \notin out.ret.val
    /\ <<>> \in out.ret.val <=> out.max_distance >= Len(out.word)
    /\ out.max_distance = 0 => out.ret.val = {}

\* C20: the snapshot index equals the runtime index. The index emitted by the
\* precompute path maps each variant to the set of words the index built by
\* load_iter from the same words and max_distance maps it to, and lists no
\* word twice under one variant.
C20_SnapshotIndex ==
  (emb.dict = sym.dictionary /\ emb.max_distance = sym.max_distance) =>
    /\ DOMAIN emb.deletes = DOMAIN sym.deletes
    /\ \A v \in DOMAIN emb.deletes :
         /\ slice_get(emb.deletes, v) = deletes_get(sym.deletes, v)
         /\ \A i, j \in DOMAIN emb.deletes[v] :
              emb.deletes[v][i] = emb.deletes[v][j] => i = j

\* C20 witness: stores built with max_distance 2 from two words of two chars
\* that share a variant; the empty string is reached from each word along
\* two ways.
C20_Witness ==
  /\ emb.max_distance = 2 /\ sym.max_distance = 2
  /\ emb.dict = sym.dictionary
  /\ \E v \in DOMAIN emb.deletes : v # <<>> /\ Len(emb.deletes[v]) = 2
  /\ <<>> \in DOMAIN emb.deletes
  /\ \A k \in DOMAIN emb.deletes[<<>>] : Len(emb.deletes[<<>>][k]) = 2

\* C21: every suggestion SymSpell::lookup returns names a word of the
\* dictionary, with that word's stored frequency and with the distance
\* damerau_levenshtein(term, word); no word is named twice in one result,
\* also when the term is itself a dictionary word.
C21_WellFormed ==
  Returned("sym") =>
    /\ \A k \in DOMAIN out.ret.val :
         LET r == out.ret.val[k]
         IN /\ r.term \in DOMAIN sym.dictionary
            /\ r.frequency = sym.dictionary[r.term]
            /\ r.distance = damerau_levenshtein(out.term, r.term)
    /\ \A i, j \in DOMAIN out.ret.val :
         out.ret.val[i].term = out.ret.val[j].term => i = j

\* C21 witness: a lookup of a dictionary word that returned it together with
\* another word of nonzero frequency.
C21_Witness ==
  /\ Returned("sym") /\ out.term \in DOMAIN sym.dictionary
  /\ Len(out.ret.val) >= 2
  /\ out.term \in Words(out.ret.val)
  /\ \E k \in DOMAIN out.ret.val :
       out.ret.val[k].term # out.term /\ out.ret.val[k].frequency > 0

====
